---- MODULE Spec2Model ----
(***************************************************************************)
(* A model of rusttest-to-dg: the conversion of rustc UI-test annotations  *)
(* (`//~ ERROR ...`, `//~^`, `//~|`) into DejaGnu directives.              *)
(*                                                                         *)
(* Text is a sequence of tokens.  A token is one character ("/", "~", "^", *)
(* "|", "[", "]", ":", " ", "\n", ...) or an indivisible word ("ERROR",    *)
(* "m", "2018", ...) that stands for a run of word characters.  Source     *)
(* texts are LF-terminated (no carriage returns).                          *)
(*                                                                         *)
(* Option<T> is a sequence of length at most one: <<>> is None and <<x>>   *)
(* is Some(x).                                                             *)
(*                                                                         *)
(* A usize is carried as the integer of least magnitude congruent to it    *)
(* modulo 2^64, so the wrapped difference 2^64 - k is carried as -k; the   *)
(* cast `as i32` keeps the low 32 bits, which for the magnitudes reached   *)
(* here is the same integer.                                               *)
(***************************************************************************)
EXTENDS Integers, Sequences, FiniteSets, TLC

VARIABLES
    overflow_checks, \* whether the build panics on integer overflow (the
                   \* debug profile) or wraps (the release profile)
    code,          \* the source text handed to transform_code
    stderr_file,   \* Option of the companion text, as its sequence of blocks
    pc,            \* "start", "loaded", "done", "printed" or "panicked";
                   \* "format" and "formatted" when one record is rendered
    errors,        \* Vec<Error> returned by load_error
    new_code,      \* the String returned by transform_code
    stdout         \* what print_source_code has written

vars == <<overflow_checks, code, stderr_file, pc, errors, new_code, stdout>>

(***************************************************************************)
(* Bounds of the model.                                                    *)
(***************************************************************************)
MaxLines == 3
MaxCompanionLines == 2
MaxEntries == 3
MaxOffset == 2

None == <<>>
Some(x) == <<x>>

Max(S) == CHOOSE x \in S : \A y \in S : y <= x

(***************************************************************************)
(* String helpers.                                                         *)
(***************************************************************************)
\* The number of consecutive tokens of s, from position i, that are in S.
RECURSIVE RunLen(_, _, _)
RunLen(s, i, S) ==
    IF i > Len(s) THEN 0
    ELSE IF s[i] \notin S THEN 0
    ELSE 1 + RunLen(s, i + 1, S)

\* The number of consecutive tokens of s, from position i, that are not in S.
RECURSIVE RunLenNot(_, _, _)
RunLenNot(s, i, S) ==
    IF i > Len(s) THEN 0
    ELSE IF s[i] \in S THEN 0
    ELSE 1 + RunLenNot(s, i + 1, S)

Drop(s, n) == SubSeq(s, n + 1, Len(s))
Take(s, n) == SubSeq(s, 1, n)

\* str::starts_with
StartsWith(s, p) == Len(s) >= Len(p) /\ Take(s, Len(p)) = p

WhiteSpace == {" "}

\* str::trim_start, str::trim_end, str::trim
TrimStart(s) == Drop(s, RunLen(s, 1, WhiteSpace))
TrimEnd(s) ==
    Take(s, Max({n \in 0..Len(s) : n = 0 \/ s[n] \notin WhiteSpace}))
Trim(s) == TrimEnd(TrimStart(s))

\* msg.split_whitespace().next(), with a missing word replaced by the empty
\* one instead of refused.
FirstWordOrEmpty(s) ==
    LET t == TrimStart(s)
    IN  Some(Take(t, RunLenNot(t, 1, WhiteSpace)))

\* msg.split_whitespace().next().expect(..): Some(word), or None when the
\* text holds no word and the expect panics.
FirstWord(s) ==
    LET t == TrimStart(s)
    IN  IF t = <<>> THEN None ELSE Some(Take(t, RunLenNot(t, 1, WhiteSpace)))

\* str::lines: pieces ended by "\n"; a final piece that is empty is no line.
RECURSIVE Lines(_)
Lines(t) ==
    IF t = <<>> THEN <<>>
    ELSE LET n == RunLenNot(t, 1, {"\n"})
         IN  IF n = Len(t) THEN <<t>>
             ELSE <<Take(t, n)>> \o Lines(Drop(t, n + 1))

\* The text whose lines are ls, with "\n" between them.
RECURSIVE JoinLines(_)
JoinLines(ls) ==
    IF ls = <<>> THEN <<>>
    ELSE IF Len(ls) = 1 THEN ls[1]
    ELSE ls[1] \o <<"\n">> \o JoinLines(Tail(ls))

(***************************************************************************)
(* RustcErrorKind::from_str                                                *)
(***************************************************************************)
\* str::to_uppercase on one token
UpperToken(t) ==
    CASE t = "error" -> "ERROR"
      [] t = "Error" -> "ERROR"
      [] t = "help" -> "HELP"
      [] t = "note" -> "NOTE"
      [] t = "suggestion" -> "SUGGESTION"
      [] t = "warn" -> "WARN"
      [] t = "Warning" -> "WARNING"
      [] t = "warning" -> "WARNING"
      [] t = "m" -> "M"
      [] t = "n" -> "N"
      [] t = "x" -> "X"
      [] t = "helpful" -> "HELPFUL"
      [] t = "edition" -> "EDITION"
      [] OTHER -> t

to_uppercase(s) == [i \in 1..Len(s) |-> UpperToken(s[i])]

\* from_str comparing the whole word, its qualifier included.
FromStrWholeWord(s) ==
    LET u == to_uppercase(s)
    IN  CASE u = <<"HELP">> -> Some("Help")
          [] u = <<"ERROR">> -> Some("Error")
          [] u = <<"NOTE">> -> Some("Note")
          [] u = <<"SUGGESTION">> -> Some("Suggestion")
          [] u = <<"WARN">> -> Some("Warning")
          [] u = <<"WARNING">> -> Some("Warning")
          [] OTHER -> None

\* from_str: Some(kind) for Ok(kind), None for Err(()).
from_str(s) ==
    LET u == to_uppercase(s)
        part0 == Take(u, RunLenNot(u, 1, {":"}))
    IN  CASE part0 = <<"HELP">> -> Some("Help")
          [] part0 = <<"ERROR">> -> Some("Error")
          [] part0 = <<"NOTE">> -> Some("Note")
          [] part0 = <<"SUGGESTION">> -> Some("Suggestion")
          [] part0 = <<"WARN">> -> Some("Warning")
          [] part0 = <<"WARNING">> -> Some("Warning")
          [] OTHER -> None

\* ---------------------------------------------------------------------------
\* The annotation recognizer
\*   //(?:\[(?P<revs>[\w\-,]+)])?~(?P<adjust>\||\^*)
\* ---------------------------------------------------------------------------
\* The tokens of the class [\w\-,]
RevsClass ==
    {"x", "m", "n", "M", "N", "X", "-", ",", "ERROR", "error", "Error", "NOTE",
     "note", "HELP", "help", "WARN", "warn", "WARNING", "Warning", "warning",
     "SUGGESTION", "suggestion", "helpful", "HELPFUL", "edition", "EDITION",
     "2018", "E0308", "E0425", "target", "dg"}

At(s, i) == IF i \in 1..Len(s) THEN s[i] ELSE "<eof>"

\* The position right after `//` and the optional `[revs]`, when `~` stands
\* there; 0 when the recognizer cannot match at start position i.
TildeAt(line, i) ==
    IF ~(At(line, i) = "/" /\ At(line, i + 1) = "/") THEN 0
    ELSE LET r == RunLen(line, i + 3, RevsClass)
         IN  IF At(line, i + 2) = "[" /\ r >= 1 /\ At(line, i + 3 + r) = "]"
                  /\ At(line, i + 4 + r) = "~"
             THEN i + 4 + r
             ELSE IF At(line, i + 2) = "~" THEN i + 2
             ELSE 0

\* The start positions at which the recognizer matches.
MatchStarts(line) == {i \in 1..Len(line) : TildeAt(line, i) # 0}

\* (?P<adjust>\||\^*) after the `~` at position t, for a match begun at i:
\* the match [start, end, adjust], start the index of its first token and end
\* the index of its last one.
CaretsAt(line, i, t, c) ==
    [start |-> i, end |-> t + c, adjust |-> SubSeq(line, t + 1, t + c)]

AdjustAt(line, i, t) ==
    IF At(line, t + 1) = "|"
    THEN [start |-> i, end |-> t + 1, adjust |-> <<"|">>]
    ELSE CaretsAt(line, i, t, RunLen(line, t + 1, {"^"}))

Min(S) == CHOOSE x \in S : \A y \in S : x <= y

\* The match begun at start position i.
MatchAt(line, i) == AdjustAt(line, i, TildeAt(line, i))

\* The leftmost of the matches that begin at the positions `starts`.
LeftmostMatch(line, starts) ==
    IF starts = {} THEN None ELSE Some(MatchAt(line, Min(starts)))

\* Regex::captures: Some(the leftmost match), or None when the line holds no
\* match.
Captures(line) == LeftmostMatch(line, MatchStarts(line))

(***************************************************************************)
(* parse_expected                                                          *)
(***************************************************************************)
NoError ==
    [line_num |-> 0, relative_line_num |-> 0, kind |-> None, msg |-> <<>>,
     error_code |-> None]

NoWhich == [form |-> "ThisLine", n |-> 0]

\* The three results of a call: it returns None, it returns Some((which,
\* error)), or it panics.
ReturnNone == [tag |-> "None", which |-> NoWhich, error |-> NoError]
ReturnSome(w, e) == [tag |-> "Some", which |-> w, error |-> e]
Panic == [tag |-> "Panic", which |-> NoWhich, error |-> NoError]

\* last_nonfollow_error.expect(..), with a missing anchor replaced by the
\* annotation's own line instead of refused.
FollowLineOrSelf(last_nonfollow_error, line_num) ==
    IF last_nonfollow_error = None THEN Some(line_num) ELSE last_nonfollow_error

\* last_nonfollow_error.expect(..): Some(line), or None when it panics.
FollowLine(last_nonfollow_error, line_num) ==
    last_nonfollow_error

\* line_num - adjusts, refusing every count that reaches the line number.
UsizeSubStrict(line_num, adjusts, checks) ==
    IF adjusts >= line_num THEN None ELSE Some(line_num - adjusts)

\* line_num - adjusts on usize: Some(difference), or None when the
\* subtraction overflows in a build that checks it; in a build that does
\* not, the difference wraps.  `checks` tells which build it is.
UsizeSub(line_num, adjusts, checks) ==
    IF adjusts > line_num /\ checks THEN None ELSE Some(line_num - adjusts)

\* The follow branch with the offset taken from the line after the one
\* the expect gave.
FollowPreviousNextLine(line_num, adjusts, kind, msg, ln) ==
    IF adjusts # 0 THEN Panic
    ELSE IF ln = None THEN Panic
    ELSE ReturnSome([form |-> "FollowPrevious", n |-> ln[1]],
                    [line_num |-> ln[1],
                     relative_line_num |-> ln[1] + 1 - line_num,
                     kind |-> kind, msg |-> msg, error_code |-> None])

\* parse_expected from `let mut relative_line_num` on, the follow branch:
\* ln is what the expect gave.
FollowPrevious(line_num, adjusts, kind, msg, ln) ==
    IF adjusts # 0 THEN Panic
    ELSE IF ln = None THEN Panic
    ELSE ReturnSome([form |-> "FollowPrevious", n |-> ln[1]],
                    [line_num |-> ln[1],
                     relative_line_num |-> ln[1] - line_num,
                     kind |-> kind, msg |-> msg, error_code |-> None])

\* The other branch: ln is what the subtraction gave.
ThisOrAdjust(adjusts, kind, msg, ln) ==
    IF ln = None THEN Panic
    ELSE ReturnSome(IF adjusts > 0
                    THEN [form |-> "AdjustBackward", n |-> adjusts]
                    ELSE [form |-> "ThisLine", n |-> 0],
                    [line_num |-> ln[1], relative_line_num |-> -adjusts,
                     kind |-> kind, msg |-> msg, error_code |-> None])

WhichLine(last_nonfollow_error, line_num, checks, follow, adjusts, kind, msg) ==
    IF follow
    THEN FollowPrevious(line_num, adjusts, kind, msg,
                        FollowLine(last_nonfollow_error, line_num))
    ELSE ThisOrAdjust(adjusts, kind, msg, UsizeSub(line_num, adjusts, checks))

\* The message once the kind is known: without its first word when that
\* word is a kind, and trimmed.
StripKind(msg, first_word, kind) ==
    Trim(IF kind # None THEN Drop(TrimStart(msg), Len(first_word)) ELSE msg)

\* parse_expected from `let kind` on.
ParseKind(last_nonfollow_error, line_num, checks, follow, adjusts, msg, first_word, kind) ==
    WhichLine(last_nonfollow_error, line_num, checks, follow, adjusts, kind,
              StripKind(msg, first_word, kind))

\* parse_expected from `let first_word` on: first_word is what the expect
\* gave.
ParseMessage(last_nonfollow_error, line_num, checks, follow, adjusts, msg, first_word) ==
    IF first_word = None THEN Panic
    ELSE ParseKind(last_nonfollow_error, line_num, checks, follow, adjusts,
                   msg, first_word[1], from_str(first_word[1]))

\* parse_expected from `let (follow, adjusts)` on, for the match found.
ParseMatch(last_nonfollow_error, line_num, line, checks, whole_match) ==
    ParseMessage(last_nonfollow_error, line_num, checks,
                 whole_match.adjust = <<"|">>,
                 IF whole_match.adjust = <<"|">> THEN 0
                 ELSE Len(whole_match.adjust),
                 Drop(line, whole_match.end),
                 FirstWord(Drop(line, whole_match.end)))

ParseCaptures(last_nonfollow_error, line_num, line, checks, captures) ==
    IF captures = None THEN ReturnNone
    ELSE ParseMatch(last_nonfollow_error, line_num, line, checks, captures[1])

parse_expected(last_nonfollow_error, line_num, line, checks) ==
    ParseCaptures(last_nonfollow_error, line_num, line, checks, Captures(line))

(***************************************************************************)
(* parse_error_code and is_error_code                                      *)
(*                                                                         *)
(* The companion text is carried as its sequence of blocks; a block is     *)
(*   <level>[<code>]: <detail>                                             *)
(*     --> file:<line_number>:col      (present when located)              *)
(***************************************************************************)
\* E\d{4}
CodeShape == {"E0308", "E0425"}

is_error_code(s) == s \in CodeShape

\* The blocks the pattern
\*   error\[(?P<error_code>E\d{4})\]: (?P<error_message_detail>.+?)\n\s+-->.+:(?P<line_number>\d+):
\* matches, in scan order.
CapturesIter(stderr_content) ==
    SelectSeq(stderr_content,
              LAMBDA b : /\ b.level = "error"
                         /\ b.code \in CodeShape
                         /\ b.detail # <<>>
                         /\ b.located)

StderrResults(kept) ==
    [i \in 1..Len(kept) |->
        [error_code |-> kept[i].code,
         error_message_detail |-> kept[i].detail,
         line_number |-> kept[i].line_number]]

parse_error_code(stderr_content) ==
    StderrResults(SelectSeq(CapturesIter(stderr_content),
                            LAMBDA b : is_error_code(b.code)))

(***************************************************************************)
(* load_error                                                              *)
(***************************************************************************)
\* The loop over text_file.lines().enumerate(), from the line of index
\* line_num (0-based) on; LoadStep is its body, given what parse_expected
\* returned.
RECURSIVE LoadLoop(_, _, _, _, _), LoadStep(_, _, _, _, _, _)
LoadStep(lines, line_num, last_unfollow_error, errs, checks, r) ==
    IF r.tag = "Panic" THEN [panicked |-> TRUE, errors |-> <<>>]
    ELSE IF r.tag = "None"
    THEN LoadLoop(lines, line_num + 1, last_unfollow_error, errs, checks)
    ELSE LoadLoop(lines, line_num + 1,
                  IF r.which.form = "FollowPrevious" THEN last_unfollow_error
                  ELSE Some(line_num),
                  Append(errs, r.error), checks)

LoadLoop(lines, line_num, last_unfollow_error, errs, checks) ==
    IF line_num >= Len(lines) THEN [panicked |-> FALSE, errors |-> errs]
    ELSE LoadStep(lines, line_num, last_unfollow_error, errs, checks,
                  parse_expected(last_unfollow_error, line_num + 1,
                                 lines[line_num + 1], checks))

\* The inner loop, leaving at the first entry that matches.
RECURSIVE AssignCodeFirstWins(_, _, _)
AssignCodeFirstWins(error, error_code_stderr, j) ==
    IF j > Len(error_code_stderr) THEN error
    ELSE LET error_code == error_code_stderr[j]
         IN  IF \/ error.line_num = error_code.line_number
                \/ error.msg = error_code.error_message_detail
             THEN [error EXCEPT !.error_code = Some(error_code.error_code)]
             ELSE AssignCodeFirstWins(error, error_code_stderr, j + 1)

\* The inner loop, taking the entry's message along with its code.
RECURSIVE AssignCodeAndMessage(_, _, _)
AssignCodeAndMessage(error, error_code_stderr, j) ==
    IF j > Len(error_code_stderr) THEN error
    ELSE LET error_code == error_code_stderr[j]
         IN  IF \/ error.line_num = error_code.line_number
                \/ error.msg = error_code.error_message_detail
             THEN AssignCodeAndMessage(
                      [error EXCEPT !.error_code = Some(error_code.error_code),
                                    !.msg = error_code.error_message_detail],
                      error_code_stderr, j + 1)
             ELSE AssignCodeAndMessage(error, error_code_stderr, j + 1)

\* The inner loop over error_code_stderr for one error, from entry j on.
RECURSIVE AssignCode(_, _, _)
AssignCode(error, error_code_stderr, j) ==
    IF j > Len(error_code_stderr) THEN error
    ELSE LET error_code == error_code_stderr[j]
         IN  IF \/ error.line_num = error_code.line_number
                \/ error.msg = error_code.error_message_detail
             THEN AssignCode([error EXCEPT !.error_code = Some(error_code.error_code)],
                             error_code_stderr, j + 1)
             ELSE AssignCode(error, error_code_stderr, j + 1)

\* The outer loop over errors.iter_mut().
AssignCodes(errs, error_code_stderr) ==
    [k \in 1..Len(errs) |-> AssignCode(errs[k], error_code_stderr, 1)]

\* load_error after its first loop, which gave r.
ResolveCodes(r, stderr) ==
    IF r.panicked \/ stderr = None THEN r
    ELSE [panicked |-> FALSE,
          errors |-> AssignCodes(r.errors, parse_error_code(stderr[1]))]

load_error(text_file, stderr, checks) ==
    ResolveCodes(LoadLoop(Lines(text_file), 0, None, <<>>, checks), stderr)

(***************************************************************************)
(* impl fmt::Display for Error                                             *)
(***************************************************************************)
ErrorType(kind) ==
    CASE kind = Some("Help") -> "help"
      [] kind = Some("Error") -> "dg-error"
      [] kind = Some("Note") -> "dg-note"
      [] kind = Some("Suggestion") -> "suggestion"
      [] kind = Some("Warning") -> "dg-warning"
      [] OTHER -> "dg-error"

\* The directive with the record's message in its second field.
DisplayWithMessage(error) ==
    <<"/", "/", " ", "{", " ", ErrorType(error.kind), " ", "\"">>
    \o (IF error.error_code = None THEN <<>>
        ELSE <<".", error.error_code[1], ".">>)
    \o <<"\"", " ", "\"">> \o error.msg
    \o <<"\"", " ", "{", " ", "target", " ", "*-*-*", " ", "}", " ">>
    \o (IF error.relative_line_num = 0 THEN <<>>
        ELSE <<".", ToString(error.relative_line_num), " ">>)
    \o <<"}">>

Display(error) ==
    LET error_code == IF error.error_code = None THEN <<>>
                      ELSE <<".", error.error_code[1], ".">>
        rel_line_number == IF error.relative_line_num = 0 THEN <<>>
                           ELSE <<".", ToString(error.relative_line_num), " ">>
    IN  <<"/", "/", " ", "{", " ", ErrorType(error.kind), " ", "\"">>
        \o error_code
        \o <<"\"", " ", "\"", "\"", " ", "{", " ", "target", " ", "*-*-*", " ",
             "}", " ">>
        \o rel_line_number \o <<"}">>

(***************************************************************************)
(* parse_edition_directive                                                 *)
(***************************************************************************)
\* Some(text) when it returns, None when value.unwrap() panics.
parse_edition_directive(line, directive) ==
    LET colon == Len(directive)
    IN  IF StartsWith(line, directive) /\ At(line, colon + 1) = ":"
        THEN Some(<<"/", "/", " ", "{", " ", "dg-additional-options", " ", "\"",
                    "-frust-edition=">> \o Drop(line, colon + 1)
                  \o <<"\"", " ", "}">>)
        ELSE None

(***************************************************************************)
(* transform_code                                                          *)
(***************************************************************************)
\* The search of the loop, comparing the line with the error's line_num alone.
RECURSIVE FirstMatchTarget(_, _, _)
FirstMatchTarget(errs, k, line_num) ==
    IF k > Len(errs) THEN 0
    ELSE IF errs[k].line_num # line_num
    THEN FirstMatchTarget(errs, k + 1, line_num)
    ELSE k

\* The index of the first error at or after k that the loop does not skip
\* for the line numbered line_num; 0 when it skips them all.
RECURSIVE FirstMatch(_, _, _)
FirstMatch(errs, k, line_num) ==
    IF k > Len(errs) THEN 0
    ELSE IF errs[k].line_num - errs[k].relative_line_num # line_num
    THEN FirstMatch(errs, k + 1, line_num)
    ELSE k

\* new_line with the directive put after the sigil instead of in its place.
SameLineKeepSigil(error, line, captures) ==
    IF captures = None THEN None
    ELSE Some(Take(line, captures[1].end) \o <<" ">> \o Display(error))

\* new_line when the error of index k matches and its offset is 0.
SameLine(error, line, captures) ==
    IF captures = None THEN None
    ELSE Some(Take(line, captures[1].start - 1) \o Display(error))

\* new_line with the directive put on a line of its own under the
\* annotation's line.
RewrittenInserted(errs, line, k) ==
    IF k = 0 THEN Some(line)
    ELSE IF errs[k].relative_line_num # 0
    THEN Some(line \o <<"\n">> \o Display(errs[k]))
    ELSE SameLine(errs[k], line, Captures(line))

\* new_line with the whole line replaced whatever the offset is.
RewrittenWhole(errs, line, k) ==
    IF k = 0 THEN Some(line) ELSE Some(Display(errs[k]))

\* new_line for one line, k the index of the first matching error (0 when
\* there is none): Some(text), or None when the expect panics.
Rewritten(errs, line, k) ==
    IF k = 0 THEN Some(line)
    ELSE IF errs[k].relative_line_num # 0 THEN Some(Display(errs[k]))
    ELSE SameLine(errs[k], line, Captures(line))

NewLine(errs, line, line_num) ==
    Rewritten(errs, line, FirstMatch(errs, 1, line_num))

\* The loop over code.lines(), from the line numbered line_num (1-based) on;
\* RewriteStep is its body, given new_line.
RECURSIVE RewriteLoop(_, _, _, _), RewriteStep(_, _, _, _, _)
RewriteStep(lines, errs, line_num, out, new_line) ==
    IF new_line = None THEN [panicked |-> TRUE, text |-> <<>>]
    ELSE RewriteLoop(lines, errs, line_num + 1, out \o new_line[1] \o <<"\n">>)

RewriteLoop(lines, errs, line_num, out) ==
    IF line_num > Len(lines) THEN [panicked |-> FALSE, text |-> out]
    ELSE RewriteStep(lines, errs, line_num, out,
                     NewLine(errs, lines[line_num], line_num))

(***************************************************************************)
(* The inputs.                                                             *)
(***************************************************************************)
Code == <<"x">>
Sp == <<" ">>
Sigil == <<"/", "/", "~">>
Edition == <<"/", "/", " ", "edition", ":", "2018">>

\* The lines a source text is made of.
LineShapes ==
    { <<>>,
      Code,
      Code \o Sp \o Sigil \o Sp \o <<"ERROR", " ", "m">>,
      Code \o Sp \o Sigil \o <<"^", " ", "m">>,
      Sigil \o <<"^", "^", " ", "NOTE", " ", "n">>,
      Sigil \o <<"|", " ", "n">>,
      Sigil \o <<"|", "^", " ", "m">>,
      Sigil \o <<"^", "|", " ", "m">>,
      Sigil \o <<" ", "ERROR">>,
      Sigil \o Sp,
      Edition,
      Edition \o Sp \o Sigil \o <<" ", "ERROR", " ", "m">>,
      Code \o <<"~", " ", "/">> \o <<"/", "/", "[", "x", "]", "~", " ", "m">>,
      Code \o Sp \o Sigil \o <<" ", "m", " ">> \o Sigil \o <<"^", " ", "n">> }

SeqsUpTo(S, n) == UNION {[1..k -> S] : k \in 0..n}

Block(level, c, detail, located, ln) ==
    [level |-> level, code |-> c, detail |-> detail, located |-> located,
     line_number |-> ln]

\* The blocks a companion text is made of.
BlockShapes ==
    { Block("error", "E0308", <<"m">>, TRUE, 1),
      Block("error", "E0425", <<"m">>, TRUE, 2),
      Block("error", "E0308", <<"q">>, TRUE, 2),
      Block("warning", "E0425", <<"m">>, TRUE, 1),
      Block("error", "E12", <<"m">>, TRUE, 1),
      Block("error", "E0425", <<"n">>, FALSE, 0) }

\* The lines of the source texts that are run with a companion text.
CompanionLineShapes ==
    { Code \o Sp \o Sigil \o Sp \o <<"ERROR", " ", "m">>,
      Code \o Sp \o Sigil \o <<"^", " ", "m">>,
      Sigil \o <<"|", " ", "NOTE", " ", "n">> }

Start ==
    /\ pc = "start"
    /\ errors = <<>>
    /\ new_code = <<>>
    /\ stdout = <<>>

\* A source text alone.
Init ==
    /\ overflow_checks \in BOOLEAN
    /\ \E ls \in SeqsUpTo(LineShapes, MaxLines) : code = JoinLines(ls)
    /\ stderr_file = None
    /\ Start

\* A source text and the optional companion text: absent, or the text made
\* of some blocks.  No line of these source texts has more carets than its
\* line number, so the build's overflow checking plays no part.
InitCompanion ==
    /\ overflow_checks = TRUE
    /\ \E ls \in SeqsUpTo(CompanionLineShapes, MaxCompanionLines) :
         code = JoinLines(ls)
    /\ \/ stderr_file = None
       \/ \E bs \in SeqsUpTo(BlockShapes, MaxEntries) : stderr_file = Some(bs)
    /\ Start

(***************************************************************************)
(* The steps of main.                                                      *)
(***************************************************************************)
\* transform_code, its call of load_error, which gives r
Loaded(r) ==
    /\ pc' = IF r.panicked THEN "panicked" ELSE "loaded"
    /\ errors' = r.errors

LoadErrors ==
    /\ pc = "start"
    /\ Loaded(load_error(code, stderr_file, overflow_checks))
    /\ UNCHANGED <<overflow_checks, code, stderr_file, new_code, stdout>>

\* transform_code, its loop over the lines, which gives r, and its return
Rewrote(r) ==
    /\ pc' = IF r.panicked THEN "panicked" ELSE "done"
    /\ new_code' = r.text

RewriteLines ==
    /\ pc = "loaded"
    /\ Rewrote(RewriteLoop(Lines(code), errors, 1, <<>>))
    /\ UNCHANGED <<overflow_checks, code, stderr_file, errors, stdout>>

\* print_source_code: println!
print_source_code ==
    /\ pc = "done"
    /\ stdout' = new_code \o <<"\n">>
    /\ pc' = "printed"
    /\ UNCHANGED <<overflow_checks, code, stderr_file, errors, new_code>>

Next == LoadErrors \/ RewriteLines \/ print_source_code

Spec == Init /\ [][Next]_vars

SpecCompanion == InitCompanion /\ [][Next]_vars

(***************************************************************************)
(* Source texts of one annotation, for the classification of its first     *)
(* word.                                                                   *)
(***************************************************************************)
\* The spellings of a word before its qualifier: the kind words in lower
\* case, capitalized and in upper case, and words that are no kind.
Spellings ==
    {"help", "HELP", "error", "Error", "ERROR", "note", "NOTE", "suggestion",
     "SUGGESTION", "warn", "WARN", "warning", "Warning", "WARNING", "helpful",
     "m"}

\* What follows the spelling in the word: nothing, a colon, a colon and a
\* qualifier.
Qualifiers == {<<>>, <<":">>, <<":", "x">>}

FirstWords ==
    {<<w>> \o q : w \in Spellings, q \in Qualifiers}
        \cup {<<":", "error">>, <<":">>}

\* What follows the first word on the line.
Rests == {<<>>, <<" ", "m">>, <<" ", " ", "m", " ", "n", " ">>}

InitKind ==
    /\ overflow_checks \in BOOLEAN
    /\ \E w \in FirstWords, r \in Rests, sp \in {<<>>, Sp} :
         code = Code \o Sp \o Sigil \o sp \o w \o r
    /\ stderr_file = None
    /\ Start

SpecKind == InitKind /\ [][Next]_vars

(***************************************************************************)
(* One record rendered on its own: format!("{}", error).                   *)
(***************************************************************************)
Kinds ==
    {None, Some("Help"), Some("Error"), Some("Note"), Some("Suggestion"),
     Some("Warning")}

Messages == {<<>>, <<"m">>, <<"m", " ", "n">>}

\* The records that are rendered: every kind, a code or none, an offset
\* from MaxOffset lines above to one line below, a message or none.
Records ==
    [line_num : {1},
     relative_line_num : (-MaxOffset)..1,
     kind : Kinds,
     msg : Messages,
     error_code : {None} \cup {Some(c) : c \in CodeShape}]

InitDisplay ==
    /\ overflow_checks = TRUE
    /\ code = <<>>
    /\ stderr_file = None
    /\ pc = "format"
    /\ \E e \in Records : errors = <<e>>
    /\ new_code = <<>>
    /\ stdout = <<>>

\* format!("{}", error)
format ==
    /\ pc = "format"
    /\ new_code' = Display(errors[1])
    /\ pc' = "formatted"
    /\ UNCHANGED <<overflow_checks, code, stderr_file, errors, stdout>>

NextDisplay == format

SpecDisplay == InitDisplay /\ [][NextDisplay]_vars

(***************************************************************************)
(* What the source text says, line by line.                                *)
(***************************************************************************)
\* What one line holds: whether the recognizer finds an annotation on it,
\* the annotation's reference form and caret count, where the sigil starts,
\* the text after the sigil and the token right after it.
LineInfo(line) ==
    LET cap == Captures(line)
    IN  IF cap = None
        THEN [line |-> line, annot |-> FALSE, form |-> "None", carets |-> 0,
              start |-> 0, text |-> <<>>, next |-> "<eof>"]
        ELSE [line |-> line, annot |-> TRUE,
              form |-> IF cap[1].adjust = <<"|">> THEN "Follow"
                       ELSE IF cap[1].adjust # <<>> THEN "Adjust"
                       ELSE "This",
              carets |-> IF cap[1].adjust = <<"|">> THEN 0
                         ELSE Len(cap[1].adjust),
              start |-> cap[1].start,
              text |-> Drop(line, cap[1].end),
              next |-> At(line, cap[1].end + 1)]

\* The lines of the source text, each with what it holds.
SrcInfo ==
    LET lines == Lines(code)
    IN  [c \in 1..Len(lines) |-> LineInfo(lines[c])]

\* The lines that hold an annotation, in source order.
AnnotLines(a) == SelectSeq([c \in 1..Len(a) |-> c], LAMBDA c : a[c].annot)

\* The line of the most recent non-follow annotation above line c; 0 when
\* there is none.
Anchor(a, c) ==
    Max({0} \cup {b \in 1..(c - 1) : a[b].annot /\ a[b].form # "Follow"})

\* The inputs parse_expected refuses.
EmptyComment(a, c) ==
    a[c].annot /\ \A j \in 1..Len(a[c].text) : a[c].text[j] \in WhiteSpace
FollowNoAnchor(a, c) ==
    a[c].annot /\ a[c].form = "Follow" /\ Anchor(a, c) = 0
Overflows(a, c) == a[c].annot /\ a[c].form = "Adjust" /\ a[c].carets > c

\* Both a continuation marker and carets stand after the sigil.
Mixed(a, c) ==
    /\ a[c].annot
    /\ \/ a[c].form = "Follow" /\ a[c].next = "^"
       \/ a[c].form = "Adjust" /\ a[c].next = "|"

\* The text after the sigil is one word, a kind word, and nothing else.
KindWordOnly(a, c) ==
    /\ a[c].annot
    /\ ~EmptyComment(a, c)
    /\ LET t == Trim(a[c].text)
       IN  /\ \A j \in 1..Len(t) : t[j] \notin WhiteSpace
           /\ from_str(t) # None

HasLoaded == pc \in {"loaded", "done", "printed"}
HasReturned == pc \in {"done", "printed"}

Count(s, t) == Cardinality({j \in 1..Len(s) : s[j] = t})

(***************************************************************************)
(* C1.  When the conversion completes, the rewritten text has exactly as   *)
(* many lines as the source text: one newline is written per source line.  *)
(***************************************************************************)
C1_LineCount ==
    HasReturned =>
        LET n == Len(Lines(code))
        IN  /\ Len(Lines(new_code)) = n
            /\ Count(new_code, "\n") = n
            /\ new_code # <<>> => new_code[Len(new_code)] = "\n"

C1_Witness ==
    /\ pc = "done"
    /\ Len(Lines(code)) >= 3
    /\ \E k \in 1..Len(errors) : errors[k].relative_line_num # 0
    /\ \E k \in 1..Len(errors) : errors[k].relative_line_num = 0

(***************************************************************************)
(* C2.  A line that holds no annotation sigil and no build-directive sigil *)
(* is written out unchanged, also when records target it.                  *)
(***************************************************************************)
IsBuildDirective(line) ==
    /\ StartsWith(line, <<"/", "/">>)
    /\ parse_edition_directive(TrimStart(Drop(line, 2)), <<"edition">>) # None

C2_PlainLinesKept ==
    HasReturned =>
        LET a == SrcInfo
            out == Lines(new_code)
        IN  \A i \in 1..Len(a) :
                (~a[i].annot /\ ~IsBuildDirective(a[i].line))
                    => (i <= Len(out) /\ out[i] = a[i].line)

C2_Witness ==
    /\ pc = "done"
    /\ LET a == SrcInfo
       IN  \E i \in 1..Len(a) :
              /\ ~a[i].annot
              /\ a[i].line # <<>>
              /\ \E k \in 1..Len(errors) :
                    errors[k].line_num = i /\ errors[k].relative_line_num # 0

(***************************************************************************)
(* C3.  A Follow-previous annotation on line c resolves to target_line = a *)
(* and relative_offset = a - c, with a the 1-based line of the most recent *)
(* non-follow annotation above it.                                         *)
(***************************************************************************)
C3_FollowResolvesToAnchor ==
    HasLoaded =>
        LET a == SrcInfo
            al == AnnotLines(a)
        IN  /\ Len(errors) = Len(al)
            /\ \A k \in 1..Len(errors) :
                  a[al[k]].form = "Follow" =>
                    /\ errors[k].line_num = Anchor(a, al[k])
                    /\ errors[k].relative_line_num = Anchor(a, al[k]) - al[k]

(***************************************************************************)
(* C4, as claimed.  In a build that checks overflow and on a text whose    *)
(* annotations are otherwise well formed, an Adjust-backward annotation    *)
(* with n carets on line c aborts the conversion whenever n >= c, and so   *)
(* every This-line or Adjust-backward record has target_line >= 1.         *)
(***************************************************************************)
OtherwiseWellFormed(a) ==
    \A c \in 1..Len(a) :
        ~Mixed(a, c) /\ ~EmptyComment(a, c) /\ ~FollowNoAnchor(a, c)

C4_AbortsWhenCountReachesLine ==
    (pc # "start" /\ overflow_checks) =>
        LET a == SrcInfo
            al == AnnotLines(a)
        IN  OtherwiseWellFormed(a) =>
              /\ (\E c \in 1..Len(a) :
                      a[c].annot /\ a[c].form = "Adjust" /\ a[c].carets >= c)
                    => pc = "panicked"
              /\ HasLoaded =>
                    /\ Len(errors) = Len(al)
                    /\ \A k \in 1..Len(errors) :
                          a[al[k]].form # "Follow" => errors[k].line_num >= 1

(***************************************************************************)
(* C4, amended.  An Adjust-backward annotation with n carets on line c     *)
(* aborts the conversion when n > c and the build checks overflow; n = c   *)
(* does not abort and resolves to line 0.  The conversion aborts in        *)
(* extraction only for an empty comment, a follow marker without anchor or *)
(* such an overflow; every This-line or Adjust-backward record has         *)
(* target_line = c - n (wrapped below 0 in a build that does not check),   *)
(* and in a checking build every record has target_line >= 0.              *)
(***************************************************************************)
C4_AbortsOnlyBelowLineZero ==
    pc # "start" =>
        LET a == SrcInfo
            al == AnnotLines(a)
        IN  /\ (overflow_checks /\ \E c \in 1..Len(a) : Overflows(a, c))
                  => pc = "panicked"
            /\ pc = "panicked" =>
                  \E c \in 1..Len(a) :
                      \/ EmptyComment(a, c)
                      \/ FollowNoAnchor(a, c)
                      \/ (overflow_checks /\ Overflows(a, c))
            /\ HasLoaded =>
                  /\ Len(errors) = Len(al)
                  /\ \A k \in 1..Len(errors) :
                        /\ a[al[k]].form # "Follow"
                              => errors[k].line_num = al[k] - a[al[k]].carets
                        /\ overflow_checks => errors[k].line_num >= 0

C4_Witness ==
    /\ pc = "loaded"
    /\ overflow_checks
    /\ LET a == SrcInfo
           al == AnnotLines(a)
       IN  /\ Len(errors) = Len(al)
           /\ \E k \in 1..Len(errors) :
                 /\ a[al[k]].form = "Adjust"
                 /\ a[al[k]].carets = al[k]
                 /\ errors[k].line_num = 0

(***************************************************************************)
(* C5.  A Follow-previous annotation with no This-line or Adjust-backward  *)
(* annotation above it aborts extraction, and the conversion yields no     *)
(* record, no rewritten text and no output, whatever comes later.          *)
(***************************************************************************)
C5_FollowWithoutAnchorAborts ==
    pc # "start" =>
        LET a == SrcInfo
        IN  (\E c \in 1..Len(a) : FollowNoAnchor(a, c)) =>
                /\ pc = "panicked"
                /\ errors = <<>>
                /\ new_code = <<>>
                /\ stdout = <<>>

C5_Witness ==
    /\ pc = "panicked"
    /\ LET a == SrcInfo
       IN  /\ \E c \in 1..Len(a) :
                 /\ FollowNoAnchor(a, c)
                 /\ \E d \in (c + 1)..Len(a) : a[d].annot /\ a[d].form # "Follow"
           /\ \A c \in 1..Len(a) : ~EmptyComment(a, c) /\ ~Overflows(a, c)

(***************************************************************************)
(* C6.  An annotation that presents both a continuation marker and caret   *)
(* symbols after the sigil aborts extraction.                              *)
(***************************************************************************)
C6_MixedMarkersAbort ==
    pc # "start" =>
        LET a == SrcInfo
        IN  (\E c \in 1..Len(a) : Mixed(a, c)) => pc = "panicked"

(***************************************************************************)
(* C7, as claimed.  An annotation whose message is empty once the kind     *)
(* word is stripped aborts extraction, and no record has an empty message. *)
(***************************************************************************)
C7_EmptyMessageAborts ==
    pc # "start" =>
        LET a == SrcInfo
        IN  /\ (\E c \in 1..Len(a) : EmptyComment(a, c) \/ KindWordOnly(a, c))
                  => pc = "panicked"
            /\ HasLoaded => \A k \in 1..Len(errors) : errors[k].msg # <<>>

(***************************************************************************)
(* C7, amended.  An annotation with no word at all after the sigil aborts  *)
(* extraction; an annotation whose text is a kind word alone is accepted   *)
(* and gives a record of that kind with an empty message; a record has an  *)
(* empty message only when its kind is set.                                *)
(***************************************************************************)
C7_EmptyCommentAborts ==
    pc # "start" =>
        LET a == SrcInfo
            al == AnnotLines(a)
        IN  /\ (\E c \in 1..Len(a) : EmptyComment(a, c)) => pc = "panicked"
            /\ HasLoaded =>
                  /\ Len(errors) = Len(al)
                  /\ \A k \in 1..Len(errors) :
                        /\ errors[k].msg = <<>> => errors[k].kind # None
                        /\ KindWordOnly(a, al[k]) =>
                              /\ errors[k].msg = <<>>
                              /\ errors[k].kind = from_str(Trim(a[al[k]].text))

C7_Witness ==
    /\ pc = "loaded"
    /\ LET a == SrcInfo
           al == AnnotLines(a)
       IN  /\ Len(errors) = Len(al)
           /\ \E k \in 1..Len(errors) :
                 /\ KindWordOnly(a, al[k])
                 /\ errors[k].msg = <<>>
                 /\ errors[k].kind = Some("Error")

(***************************************************************************)
(* C8.  A build-directive line is rewritten as a whole to the              *)
(* dg-additional-options directive that carries its value, whether or not  *)
(* the line also holds an annotation.                                      *)
(***************************************************************************)
C8_BuildDirectiveRewritten ==
    HasReturned =>
        LET lines == Lines(code)
            out == Lines(new_code)
        IN  \A i \in 1..Len(lines) :
                IsBuildDirective(lines[i]) =>
                    /\ i <= Len(out)
                    /\ out[i] =
                         parse_edition_directive(TrimStart(Drop(lines[i], 2)),
                                                 <<"edition">>)[1]

(***************************************************************************)
(* C9.  The line rewritten for a record is the annotation's own line, the  *)
(* one numbered target_line - relative_offset: with a non-zero offset the  *)
(* whole line becomes the directive, with offset 0 the text before the     *)
(* sigil is kept and the directive follows it.  The first record that      *)
(* matches a line is the one applied, and a line no record matches is      *)
(* left as it is.                                                          *)
(***************************************************************************)
MatchingRecords(i) ==
    {k \in 1..Len(errors) :
        errors[k].line_num - errors[k].relative_line_num = i}

\* What C9 says line i becomes, given what the line holds and the records
\* that match it.
C9_Line(info, m) ==
    IF m = {} THEN info.line
    ELSE IF errors[Min(m)].relative_line_num # 0 THEN Display(errors[Min(m)])
    ELSE Take(info.line, info.start - 1) \o Display(errors[Min(m)])

C9_AnnotationLineRewritten ==
    HasReturned =>
        LET a == SrcInfo
            al == AnnotLines(a)
            out == Lines(new_code)
        IN  /\ Len(errors) = Len(al)
            /\ Len(out) = Len(a)
            /\ \A k \in 1..Len(errors) : k \in MatchingRecords(al[k])
            /\ \A i \in 1..Len(a) :
                  /\ MatchingRecords(i) # {} => a[i].annot
                  /\ out[i] = C9_Line(a[i], MatchingRecords(i))

C9_Witness ==
    /\ pc = "done"
    /\ LET a == SrcInfo
           out == Lines(new_code)
       IN  /\ \E i \in 1..Len(a), k \in 1..Len(errors) :
                 /\ k \in MatchingRecords(i)
                 /\ errors[k].relative_line_num = 0
                 /\ a[i].annot /\ a[i].start > 1
           /\ \E i \in 1..Len(a), k \in 1..Len(errors) :
                 /\ k \in MatchingRecords(i)
                 /\ errors[k].relative_line_num # 0
                 /\ a[i].annot /\ a[i].start > 1
                 /\ errors[k].line_num \in 1..Len(a)
                 /\ out[errors[k].line_num] = a[errors[k].line_num].line

(***************************************************************************)
(* C10.  With a companion text, a record matches an entry when the entry's *)
(* line number is the record's target_line or the entry's message is the   *)
(* record's message; the record's code is that of the last entry that      *)
(* matches it, and it has no code when no entry matches.                   *)
(***************************************************************************)
\* The entries of the companion text: its located error[Edddd] blocks.
Entries ==
    SelectSeq(stderr_file[1],
              LAMBDA b : b.level = "error" /\ b.code \in CodeShape /\ b.located)

EntryMatches(entries, k) ==
    {j \in 1..Len(entries) :
        \/ entries[j].line_number = errors[k].line_num
        \/ entries[j].detail = errors[k].msg}

\* What C10 says the code of a record is, given the entries matching it.
C10_Code(entries, m) ==
    IF m = {} THEN None ELSE Some(entries[Max(m)].code)

C10_LastMatchWins ==
    (HasLoaded /\ stderr_file # None) =>
        LET entries == Entries
        IN  \A k \in 1..Len(errors) :
                errors[k].error_code = C10_Code(entries, EntryMatches(entries, k))

C10_Witness ==
    /\ pc = "loaded"
    /\ stderr_file # None
    /\ LET entries == Entries
       IN  /\ \E k \in 1..Len(errors) :
                 /\ Cardinality(EntryMatches(entries, k)) >= 2
                 /\ \E j \in EntryMatches(entries, k) :
                       entries[j].code
                           # entries[Max(EntryMatches(entries, k))].code
           /\ \E j \in 1..Len(entries) :
                 \A k \in 1..Len(errors) : j \notin EntryMatches(entries, k)

(***************************************************************************)
(* C11.  A record's code is set only by cross-referencing.  Without a      *)
(* companion text every record is returned as it was extracted, its code   *)
(* unset; with one, a record that no entry matches keeps its code unset;   *)
(* and resolution changes neither target_line, relative_offset, kind or    *)
(* message of a record, nor the number or the order of the records.        *)
(***************************************************************************)
\* The records as extraction alone makes them: the first loop of load_error.
Extracted == LoadLoop(Lines(code), 0, None, <<>>, overflow_checks).errors

\* The entries that match record k; none when there is no companion text.
MatchesOf(k) ==
    IF stderr_file = None THEN {} ELSE EntryMatches(Entries, k)

C11_CodeOnlyByCrossReference ==
    HasLoaded =>
        LET ex == Extracted
        IN  /\ Len(errors) = Len(ex)
            /\ \A k \in 1..Len(errors) :
                  /\ errors[k].line_num = ex[k].line_num
                  /\ errors[k].relative_line_num = ex[k].relative_line_num
                  /\ errors[k].kind = ex[k].kind
                  /\ errors[k].msg = ex[k].msg
                  /\ ex[k].error_code = None
                  /\ errors[k].error_code # None <=> MatchesOf(k) # {}
            /\ stderr_file = None => errors = ex

C11_Witness ==
    /\ pc = "loaded"
    /\ stderr_file # None
    /\ Entries # <<>>
    /\ \E k \in 1..Len(errors) :
          errors[k].error_code # None /\ errors[k].msg # <<>>
    /\ \E k \in 1..Len(errors) :
          errors[k].error_code = None /\ MatchesOf(k) = {}

\* The same conversion without companion text: records extracted, none with
\* a code.
C11_WitnessNoCompanion ==
    /\ pc = "loaded"
    /\ stderr_file = None
    /\ Len(errors) >= 2

(***************************************************************************)
(* C12.  The directive rendered for a record is                            *)
(*   // { <kind-tag> "<code>" "" { target *-*-* } <offset-suffix>}         *)
(* with kind-tag dg-error for Error or an unset kind, dg-warning for       *)
(* Warning, dg-note for Note, help for Help and suggestion for Suggestion; *)
(* <code> empty when the code is unset and .<code>. otherwise;             *)
(* <offset-suffix> empty when the offset is 0 and .<offset> followed by a  *)
(* space otherwise.  The record's message never appears in the directive.  *)
(***************************************************************************)
KindTag(kind) ==
    IF kind \in {None, Some("Error")} THEN "dg-error"
    ELSE IF kind = Some("Warning") THEN "dg-warning"
    ELSE IF kind = Some("Note") THEN "dg-note"
    ELSE IF kind = Some("Help") THEN "help"
    ELSE "suggestion"

CodeField(error_code) ==
    IF error_code = None THEN <<>> ELSE <<".", error_code[1], ".">>

OffsetSuffix(offset) ==
    IF offset = 0 THEN <<>> ELSE <<".", ToString(offset), " ">>

Directive(e) ==
    <<"/", "/", " ", "{", " ", KindTag(e.kind), " ">>
    \o <<"\"">> \o CodeField(e.error_code) \o <<"\"">>
    \o <<" ", "\"", "\"", " ">>
    \o <<"{", " ", "target", " ", "*-*-*", " ", "}", " ">>
    \o OffsetSuffix(e.relative_line_num) \o <<"}">>

\* The words of a text: its tokens other than the blank.
Words(s) == {s[j] : j \in 1..Len(s)} \ WhiteSpace

C12_DirectiveFormat ==
    pc = "formatted" =>
        /\ new_code = Directive(errors[1])
        /\ Words(errors[1].msg) \cap Words(new_code) = {}

\* Two carets, a warning with a code: // { dg-warning ".E0308." "" { target
\* *-*-* } .-2 }
C12_Witness ==
    /\ pc = "formatted"
    /\ errors[1].kind = Some("Warning")
    /\ errors[1].error_code = Some("E0308")
    /\ errors[1].relative_line_num = -2
    /\ errors[1].msg # <<>>
    /\ new_code = <<"/", "/", " ", "{", " ", "dg-warning", " ", "\"", ".",
                    "E0308", ".", "\"", " ", "\"", "\"", " ", "{", " ",
                    "target", " ", "*-*-*", " ", "}", " ", ".", "-2", " ",
                    "}">>

(***************************************************************************)
(* C13.  The first whitespace-delimited word of an annotation is           *)
(* classified without regard to case and to what follows its first colon:  *)
(* help, error, note, suggestion and warn or warning give Help, Error,     *)
(* Note, Suggestion and Warning, and the word is removed from the message; *)
(* any other word leaves the kind unset and the message as it is, apart    *)
(* from trimming.                                                          *)
(***************************************************************************)
KindWords ==
    [Help |-> {"help", "Help", "HELP"},
     Error |-> {"error", "Error", "ERROR"},
     Note |-> {"note", "Note", "NOTE"},
     Suggestion |-> {"suggestion", "Suggestion", "SUGGESTION"},
     Warning |-> {"warn", "Warn", "WARN", "warning", "Warning", "WARNING"}]

\* The kinds a word is a spelling of: the word is one token of a kind's
\* words, alone or followed by a colon and anything.
KindsOfWord(w) ==
    {k \in DOMAIN KindWords :
        /\ w # <<>>
        /\ w[1] \in KindWords[k]
        /\ Len(w) >= 2 => w[2] = ":"}

\* The text after the first word.
AfterFirstWord(text) ==
    Drop(TrimStart(text), RunLenNot(TrimStart(text), 1, WhiteSpace))

\* What C13 says the kind and the message of a record are, given the text
\* after the sigil and the kinds its first word spells.
C13_Kind(ks) == IF ks = {} THEN None ELSE Some(CHOOSE k \in ks : TRUE)
C13_Message(text, ks) ==
    IF ks = {} THEN Trim(text) ELSE Trim(AfterFirstWord(text))

C13_KindClassification ==
    HasLoaded =>
        LET a == SrcInfo
            al == AnnotLines(a)
        IN  /\ Len(errors) = Len(al)
            /\ \A k \in 1..Len(errors) :
                  /\ errors[k].kind
                        = C13_Kind(KindsOfWord(FirstWord(a[al[k]].text)[1]))
                  /\ errors[k].msg
                        = C13_Message(a[al[k]].text,
                                      KindsOfWord(FirstWord(a[al[k]].text)[1]))
            /\ from_str(<<>>) = None

\* `x //~ Warning:x  m n ` gives a Warning with message `m n`.
C13_Witness ==
    /\ pc = "loaded"
    /\ code = Code \o Sp \o Sigil \o Sp \o <<"Warning", ":", "x">>
                \o <<" ", " ", "m", " ", "n", " ">>
    /\ Len(errors) = 1
    /\ errors[1].kind = Some("Warning")
    /\ errors[1].msg = <<"m", " ", "n">>

(***************************************************************************)
(* C14.  When the conversion completes, extraction run again on the        *)
(* rewritten text yields no record: no line of the output, be it a kept    *)
(* prefix with its directive, a directive on a line of its own or a line   *)
(* left as it was, is recognized as an annotation; a second conversion     *)
(* gives the rewritten text back.                                          *)
(***************************************************************************)
\* The conversion of a text of the given lines: load_error and the loop of
\* transform_code on them, with the same companion text and build.
Reloaded(lines) ==
    ResolveCodes(LoadLoop(lines, 0, None, <<>>, overflow_checks), stderr_file)
Reconverted(lines, r) ==
    IF r.panicked THEN [panicked |-> TRUE, text |-> <<>>]
    ELSE RewriteLoop(lines, r.errors, 1, <<>>)

C14_NoRecordInRewrittenText ==
    HasReturned =>
        LET out == Lines(new_code)
            again == Reloaded(out)
        IN  /\ \A i \in 1..Len(out) : Captures(out[i]) = None
            /\ again = [panicked |-> FALSE, errors |-> <<>>]
            /\ Reconverted(out, again) = [panicked |-> FALSE,
                                          text |-> new_code]

\* A completed conversion whose output has a kept prefix with its
\* directive, a directive on a line of its own and a line left as it was.
C14_Witness ==
    /\ pc = "done"
    /\ LET a == SrcInfo
           out == Lines(new_code)
       IN  /\ Len(out) = Len(a)
           /\ \E i \in 1..Len(a) :
                 a[i].annot /\ a[i].start > 1 /\ a[i].form = "This"
                 /\ out[i] # a[i].line
           /\ \E i \in 1..Len(a) :
                 a[i].annot /\ a[i].form # "This" /\ StartsWith(out[i], <<"/", "/", " ", "{">>)
           /\ \E i \in 1..Len(a) : ~a[i].annot /\ a[i].line # <<>>
           /\ Reloaded(out).errors = <<>>

(***************************************************************************)
(* C15.  Every record that extraction produces, whatever its reference     *)
(* form, has relative_offset <= 0 and target_line = c + relative_offset,   *)
(* c being the line of its annotation: This-line gives offset 0 and        *)
(* target c, n carets give offset -n and target c - n, and no target is    *)
(* below its annotation's line.                                            *)
(*                                                                         *)
(* target_line is a usize: a carried value x < 0 stands for 2^64 + x,      *)
(* which is no c + relative_offset and is below every line of the text.    *)
(***************************************************************************)
\* The usize carried as x is the integer v.
UsizeIs(x, v) == x >= 0 /\ x = v

\* The usize carried as x is at most the line c.
UsizeAtMost(x, c) == x >= 0 /\ x <= c

C15_TargetIsLinePlusOffset ==
    HasLoaded =>
        LET a == SrcInfo
            al == AnnotLines(a)
        IN  /\ Len(errors) = Len(al)
            /\ \A k \in 1..Len(errors) :
                  /\ errors[k].relative_line_num <= 0
                  /\ UsizeIs(errors[k].line_num,
                             al[k] + errors[k].relative_line_num)
                  /\ UsizeAtMost(errors[k].line_num, al[k])
                  /\ a[al[k]].form = "This" =>
                        /\ errors[k].relative_line_num = 0
                        /\ UsizeIs(errors[k].line_num, al[k])
                  /\ a[al[k]].form = "Adjust" =>
                        /\ errors[k].relative_line_num = -a[al[k]].carets
                        /\ UsizeIs(errors[k].line_num,
                                   al[k] - a[al[k]].carets)

(***************************************************************************)
(* C16.  Extraction yields at most one record per source line, in source   *)
(* order.  In the rewriting pass every record is applied to exactly one    *)
(* line, its own annotation's, and every line has at most one record that  *)
(* matches it: as many lines are rewritten as there are records, no record *)
(* is dropped even when several share one target_line, and the lookup of   *)
(* the sigil on the line of a same-line record never fails.                *)
(***************************************************************************)
\* The lines that record k matches in the rewriting pass.
LinesMatching(k, n) == {i \in 1..n : k \in MatchingRecords(i)}

\* The lines that the rewriting pass has changed.
RewrittenLines(a, out) == {i \in 1..Len(a) : out[i] # a[i].line}

\* What C16 says of the records and the lines a holds, once extracted.
C16_Extracted(a, al) ==
    /\ Len(errors) = Len(al)
    /\ \A k \in 1..Len(errors) : LinesMatching(k, Len(a)) = {al[k]}
    /\ \A i \in 1..Len(a) : Cardinality(MatchingRecords(i)) <= 1
    /\ \A k \in 1..Len(errors) :
          errors[k].relative_line_num = 0 => Captures(a[al[k]].line) # None

\* What C16 says of the rewritten lines `out`.
C16_Rewritten(a, out) ==
    /\ Len(out) = Len(a)
    /\ Cardinality(RewrittenLines(a, out)) = Len(errors)
    /\ \A k \in 1..Len(errors) :
          LinesMatching(k, Len(a)) \subseteq RewrittenLines(a, out)

C16_OneRecordOneLine ==
    /\ HasLoaded =>
          LET a == SrcInfo
          IN  /\ C16_Extracted(a, AnnotLines(a))
              /\ HasReturned => C16_Rewritten(a, Lines(new_code))
    /\ pc = "panicked" => errors = <<>>

\* Two records share one target_line, one of them a same-line record, and
\* both lines are rewritten.
C16_Witness ==
    /\ pc = "done"
    /\ \E k, j \in 1..Len(errors) :
          /\ k # j
          /\ errors[k].line_num = errors[j].line_num
          /\ errors[k].relative_line_num = 0
          /\ errors[j].relative_line_num # 0
    /\ LET a == SrcInfo
       IN  /\ Cardinality(RewrittenLines(a, Lines(new_code))) = Len(errors)
           /\ Len(errors) < Len(a)

====
